---- MODULE Spec2Model ----
(***************************************************************************)
(* Soulmate Agent backend: the Express handlers of server.js               *)
(* (/api/users/register, /api/users/login, /api/moments/create), of        *)
(* routes/profile.js (/api/profile/analyze, /api/profile/get) and of       *)
(* routes/assistant.js (/generate, /suggest, /comment), over the           *)
(* PostgreSQL tables of database/postgres.js.                              *)
(*                                                                         *)
(* A handler is an async function: every `await` on the database is a      *)
(* point where another request may run, so a handler with two database     *)
(* round trips is two actions.  Request bodies carry strings (or nothing); *)
(* the falsy values undefined and '' are both written Missing.             *)
(***************************************************************************)
EXTENDS Integers, Sequences, FiniteSets, TLC

VARIABLES
  users,      \* table users: set of rows
  profiles,   \* table soul_profiles: set of rows
  moments,    \* table moments: sequence of rows, in insertion (created_at) order
  req,        \* req[c]: the request in flight on connection c, between two awaits
  last,       \* the exchange answered last: the request, what it computed, the response
  nextId      \* uuidv4(): the next identifier no stored row carries

vars == <<users, profiles, moments, req, last, nextId>>

\* ------------------------------------------------------------------ bounds

MaxConns == 2          \* concurrent connections
MaxIds == 6            \* uuids handed out in one behaviour
MaxMoments == 2        \* rows of the moments table
MaxMessages == 10      \* messages of a conversation sent to /suggest

Conns == 1..MaxConns

Missing == ""
\* A userId that is absent from the request (`!userId`).
MissingId == 0
Usernames == {"alice", "bob"}
Passwords == {"pw1", "pw2"}

\* The message and text literals of the handlers (the source's are Chinese).
MsgCredentialsMissing == "username and password must not be empty"  \* 用户名和密码不能为空
MsgUsernameTaken == "username already exists"                       \* 用户名已存在
MsgServerError == "internal server error"                           \* 服务器内部错误
MsgRegistered == "registered"                                       \* 注册成功
MsgNoSuchUser == "user does not exist"                              \* 用户不存在
MsgWrongPassword == "wrong password"                                \* 密码错误
MsgLoggedIn == "logged in"                                          \* 登录成功
MsgUserIdMissing == "missing parameter: userId"                     \* 缺少必要参数：userId
MsgNoProfile == "no soul profile yet, analyze first"                \* 该用户尚未生成灵魂画像，请先进行数据分析
MsgAnalyzed == "soul profile analysis done"                         \* 灵魂画像分析完成
MsgMomentMissing == "missing parameters: userId and content"       \* 缺少必要参数：userId 和 content
MsgMomentCreated == "moment published"                              \* 瞬间发布成功
DefaultBio == "mysterious person, no bio yet"

\* ------------------------------------------------------------------- text

\* A JavaScript string is the sequence of its characters.  A Chinese character
\* is written "uXXXX" (its code point), a Latin letter as itself.
Lower(ch) == IF ch = "A" THEN "a" ELSE IF ch = "I" THEN "i" ELSE ch

\* String.prototype.toLowerCase
toLowerCase(text) == [i \in DOMAIN text |-> Lower(text[i])]

\* String.prototype.includes: kw occurs in text as a substring
includes(text, kw) ==
  \E i \in 1..(Len(text) - Len(kw) + 1) : SubSeq(text, i, i + Len(kw) - 1) = kw

\* keywords.some(kw => content.includes(kw))
someIncluded(content, keywords) ==
  \E k \in DOMAIN keywords : includes(content, keywords[k])

\* Set.prototype.add on an insertion-ordered Set
SetAdd(s, x) == IF \E i \in DOMAIN s : s[i] = x THEN s ELSE Append(s, x)

RECURSIVE NewSet(_)
\* new Set(array): the distinct elements in order of first occurrence
NewSet(array) ==
  IF array = <<>> THEN <<>>
  ELSE LET front == NewSet(SubSeq(array, 1, Len(array) - 1)) IN
       SetAdd(front, array[Len(array)])

\* Array.prototype.slice(0, n)
Slice(s, n) == SubSeq(s, 1, IF Len(s) < n THEN Len(s) ELSE n)

\* extractInterests: const interestKeywords (category names in English)
interestKeywords == <<
  \* 哲学: 存在, 意义, 真理, 思考, 本质, 哲学
  <<"philosophy", <<<<"u5b58", "u5728">>, <<"u610f", "u4e49">>, <<"u771f", "u7406">>, <<"u601d", "u8003">>, <<"u672c", "u8d28">>, <<"u54f2", "u5b66">>>> >>,
  \* 科技: AI, 人工智能, 技术, 编程, 未来, 科技
  <<"technology", <<<<"A", "I">>, <<"u4eba", "u5de5", "u667a", "u80fd">>, <<"u6280", "u672f">>, <<"u7f16", "u7a0b">>, <<"u672a", "u6765">>, <<"u79d1", "u6280">>>> >>,
  \* 艺术: 音乐, 电影, 画, 美, 创作, 艺术
  <<"art", <<<<"u97f3", "u4e50">>, <<"u7535", "u5f71">>, <<"u753b">>, <<"u7f8e">>, <<"u521b", "u4f5c">>, <<"u827a", "u672f">>>> >>,
  \* 旅行: 旅行, 探险, 世界, 风景, 文化
  <<"travel", <<<<"u65c5", "u884c">>, <<"u63a2", "u9669">>, <<"u4e16", "u754c">>, <<"u98ce", "u666f">>, <<"u6587", "u5316">>>> >>,
  \* 阅读: 书, 阅读, 文学, 故事, 知识
  <<"reading", <<<<"u4e66">>, <<"u9605", "u8bfb">>, <<"u6587", "u5b66">>, <<"u6545", "u4e8b">>, <<"u77e5", "u8bc6">>>> >>,
  \* 运动: 运动, 健身, 跑步, 瑜伽, 活力
  <<"sport", <<<<"u8fd0", "u52a8">>, <<"u5065", "u8eab">>, <<"u8dd1", "u6b65">>, <<"u745c", "u4f3d">>, <<"u6d3b", "u529b">>>> >>,
  \* 美食: 美食, 料理, 餐厅, 烹饪, 味道
  <<"food", <<<<"u7f8e", "u98df">>, <<"u6599", "u7406">>, <<"u9910", "u5385">>, <<"u70f9", "u996a">>, <<"u5473", "u9053">>>> >>,
  \* 摄影: 摄影, 照片, 镜头, 光影, 记录
  <<"photography", <<<<"u6444", "u5f71">>, <<"u7167", "u7247">>, <<"u955c", "u5934">>, <<"u5149", "u5f71">>, <<"u8bb0", "u5f55">>>> >>
>>

\* analyzeValues: const valueKeywords
valueKeywords == <<
  \* 自由: 自由, 独立, 选择, 自主
  <<"freedom", <<<<"u81ea", "u7531">>, <<"u72ec", "u7acb">>, <<"u9009", "u62e9">>, <<"u81ea", "u4e3b">>>> >>,
  \* 真诚: 真实, 诚实, 坦率, 真诚
  <<"sincerity", <<<<"u771f", "u5b9e">>, <<"u8bda", "u5b9e">>, <<"u5766", "u7387">>, <<"u771f", "u8bda">>>> >>,
  \* 探索: 探索, 好奇, 发现, 冒险
  <<"exploration", <<<<"u63a2", "u7d22">>, <<"u597d", "u5947">>, <<"u53d1", "u73b0">>, <<"u5192", "u9669">>>> >>,
  \* 成长: 成长, 进步, 学习, 提升
  <<"growth", <<<<"u6210", "u957f">>, <<"u8fdb", "u6b65">>, <<"u5b66", "u4e60">>, <<"u63d0", "u5347">>>> >>,
  \* 连接: 连接, 共鸣, 理解, 陪伴
  <<"connection", <<<<"u8fde", "u63a5">>, <<"u5171", "u9e23">>, <<"u7406", "u89e3">>, <<"u966a", "u4f34">>>> >>,
  \* 创造: 创造, 创新, 想象, 艺术
  <<"creation", <<<<"u521b", "u9020">>, <<"u521b", "u65b0">>, <<"u60f3", "u8c61">>, <<"u827a", "u672f">>>> >>
>>

\* analyzeSentiment: const positiveWords
\* 开心, 快乐, 美好, 幸福, 喜欢, 爱, 棒, 好
positiveWords == <<
  <<"u5f00", "u5fc3">>,
  <<"u5feb", "u4e50">>,
  <<"u7f8e", "u597d">>,
  <<"u5e78", "u798f">>,
  <<"u559c", "u6b22">>,
  <<"u7231">>,
  <<"u68d2">>,
  <<"u597d">> >>

\* analyzeSentiment: const negativeWords
\* 难过, 伤心, 孤独, 失落, 遗憾, 痛, 累
negativeWords == <<
  <<"u96be", "u8fc7">>,
  <<"u4f24", "u5fc3">>,
  <<"u5b64", "u72ec">>,
  <<"u5931", "u843d">>,
  <<"u9057", "u61be">>,
  <<"u75db">>,
  <<"u7d2f">> >>

\* extractKeywords: const interestWords
\* 音乐, 电影, 书, 旅行, 美食, 运动, 科技, 艺术, 哲学, 摄影
interestWords == <<
  <<"u97f3", "u4e50">>,
  <<"u7535", "u5f71">>,
  <<"u4e66">>,
  <<"u65c5", "u884c">>,
  <<"u7f8e", "u98df">>,
  <<"u8fd0", "u52a8">>,
  <<"u79d1", "u6280">>,
  <<"u827a", "u672f">>,
  <<"u54f2", "u5b66">>,
  <<"u6444", "u5f71">> >>

\* Moment contents used as inputs.
TextHello == <<"u4f60", "u597d">>   \* 你好
TextAI == <<"A", "I">>   \* AI
TextTravel == <<"u65c5", "u884c">>   \* 旅行
TextArtLove == <<"u6211", "u7231", "u827a", "u672f">>   \* 我爱艺术
TextStudyTired == <<"u5b66", "u4e60", "u7d2f">>   \* 学习累

\* ------------------------------------------------- keyword fallbacks

RECURSIVE matchCategories(_, _, _, _)
\* Object.entries(dict).forEach(([category, keywords]) => ...), from entry k on:
\* a category is added when one of its keywords occurs in content.
matchCategories(set, content, dict, k) ==
  IF k > Len(dict) THEN set
  ELSE matchCategories(
         IF someIncluded(content, dict[k][2]) THEN SetAdd(set, dict[k][1]) ELSE set,
         content, dict, k + 1)

RECURSIVE forEachMoment(_, _, _, _)
\* moments.forEach(moment => { const content = moment.content.toLowerCase(); ... })
forEachMoment(set, ms, dict, i) ==
  IF i > Len(ms) THEN set
  ELSE forEachMoment(matchCategories(set, toLowerCase(ms[i].content), dict, 1),
                     ms, dict, i + 1)

extractInterests(ms, additionalInterests) ==
  Slice(forEachMoment(NewSet(additionalInterests), ms, interestKeywords, 1), 8)

analyzeValues(ms, additionalValues) ==
  Slice(forEachMoment(NewSet(additionalValues), ms, valueKeywords, 1), 6)

Min(a, b) == IF a < b THEN a ELSE b

\* Style and emotion names: "interactive" is 互动型, "exploring" 探索型,
\* "optimistic" 乐观积极, "balanced" 情绪平衡; the dimensions are 开放性, 外向性,
\* 责任心, 宜人性, 情绪稳定性.
generatePersonalityVector(interests, values, style, emotion) == <<
  [dimension |-> "openness", score |-> Min(Len(interests) * 12, 100)],
  [dimension |-> "extraversion", score |-> IF style = "interactive" THEN 85 ELSE 60],
  [dimension |-> "conscientiousness",
   score |-> IF \E i \in DOMAIN values : values[i] = "growth" THEN 88 ELSE 70],
  [dimension |-> "agreeableness", score |-> IF emotion = "optimistic" THEN 90 ELSE 75],
  [dimension |-> "stability", score |-> IF emotion = "balanced" THEN 85 ELSE 70] >>

RECURSIVE SumScores(_)
SumScores(vector) ==
  IF vector = <<>> THEN 0 ELSE vector[1].score + SumScores(Tail(vector))

\* Math.round(sum / length) for a non-empty vector of non-negative scores:
\* the nearest integer, halves up.
calculateMatchScore(vector) ==
  (2 * SumScores(vector) + Len(vector)) \div (2 * Len(vector))

\* -------------------------------------------------- the AI model's answer

\* The text of a chat completion is a sequence of tokens: prose, the brackets
\* and braces the handlers' regular expressions look for, and the bodies of
\* well-formed JSON values.
Prose == [k |-> "prose"]
LBrace == [k |-> "{"]
RBrace == [k |-> "}"]
Members(fields) == [k |-> "members", v |-> fields]

Positions(text, kind) == {i \in DOMAIN text : text[i].k = kind}
SetMin(S) == CHOOSE x \in S : \A y \in S : x <= y
SetMax(S) == CHOOSE x \in S : \A y \in S : x >= y

\* aiResponse.match(/\{[\s\S]*\}/): greedy, from the first "{" to the last "}".
\* <<>> stands for null (no match).
matchObject(text) ==
  LET opens == Positions(text, "{")
      closes == Positions(text, "}")
  IN IF opens = {} \/ closes = {} \/ SetMax(closes) < SetMin(opens) THEN <<>>
     ELSE SubSeq(text, SetMin(opens), SetMax(closes))

\* An object without fields: {}.
EmptyObject == <<>>

\* JSON.parse of a matched {...} fragment: an object, or a SyntaxError.
parseObject(fragment) ==
  IF Len(fragment) = 2 THEN [ok |-> TRUE, v |-> EmptyObject]
  ELSE IF Len(fragment) = 3 /\ fragment[2].k = "members"
    THEN [ok |-> TRUE, v |-> fragment[2].v]
  ELSE [ok |-> FALSE]

\* obj.name || default for a string field: absent and '' give the default
Field(obj, name, default) ==
  IF name \in DOMAIN obj THEN (IF obj[name] = "" THEN default ELSE obj[name]) ELSE default

\* obj.name || default for an array field
ArrayField(obj, name) == IF name \in DOMAIN obj THEN obj[name] ELSE <<>>

\* --------------------------------------------------------------- requests

Idle == [pc |-> "idle", op |-> "none", in |-> <<>>, loc |-> <<>>]

NoExchange == [op |-> "none", in |-> <<>>, loc |-> <<>>, res |-> <<>>]

\* res.status(s).json({success, message, data})
Reply(status, message, data) ==
  [status |-> status, success |-> (status = 200), message |-> message, data |-> data]

Exchange(op, in, loc, res) == [op |-> op, in |-> in, loc |-> loc, res |-> res]

\* A connection carries one request at a time.
Free(c) == req[c].pc = "idle"

\* ------------------------------------------------------------ users table

\* bcrypt.hashSync(password, 10): a salted digest, never the clear text.
hashSync(password) == <<"bcrypt", password>>

\* bcrypt.compareSync(password, hash)
compareSync(password, hash) == hash = hashSync(password)

\* SELECT * FROM users WHERE username = $1  (rows[0] || null)
findByUsername(username) == {u \in users : u.username = username}

\* SELECT * FROM users WHERE id = $1
findById(id) == {u \in users : u.id = id}

UsersPrimaryKeyOnly(row) == \E u \in users : u.id = row.id

\* users: id TEXT PRIMARY KEY, username TEXT UNIQUE NOT NULL
UsersConstraintViolated(row) ==
  \E u \in users : u.id = row.id \/ u.username = row.username

\* ------------------------------------------------ POST /api/users/register

\* Validation and the first await: findByUsername.
RegisterFind(c, username, password) ==
  /\ Free(c)
  /\ LET in == [username |-> username, password |-> password] IN
     IF username = Missing \/ password = Missing
       THEN /\ last' = Exchange("register", in, <<>>, Reply(400, MsgCredentialsMissing, <<>>))
            /\ req' = req
     ELSE IF findByUsername(username) # {}
       THEN /\ last' = Exchange("register", in, <<>>, Reply(409, MsgUsernameTaken, <<>>))
            /\ req' = req
     ELSE /\ req' = [req EXCEPT ![c] =
                 [pc |-> "reg_create", op |-> "register", in |-> in, loc |-> <<>>]]
          /\ last' = last
  /\ UNCHANGED <<users, profiles, moments, nextId>>

\* hashSync, uuidv4, the second await: userOperations.create, and the answer.
\* A constraint violation makes pool.query reject: the catch answers 500.
RegisterCreate(c) ==
  /\ req[c].pc = "reg_create"
  /\ nextId <= MaxIds
  /\ LET in == req[c].in
         userId == nextId
         row == [id |-> userId, username |-> in.username,
                 password |-> hashSync(in.password),
                 avatar |-> <<"dicebear", userId>>,
                 bio |-> DefaultBio]
     IN IF UsersConstraintViolated(row)
          THEN /\ users' = users
               /\ last' = Exchange("register", in, [userId |-> userId],
                                   Reply(500, MsgServerError, <<>>))
          ELSE /\ users' = users \cup {row}
               /\ last' = Exchange("register", in, [userId |-> userId],
                                   Reply(200, MsgRegistered,
                                         [userId |-> userId, username |-> in.username]))
  /\ req' = [req EXCEPT ![c] = Idle]
  /\ nextId' = IF users' = users THEN nextId ELSE nextId + 1
  /\ UNCHANGED <<profiles, moments>>

\* --------------------------------------------------- POST /api/users/login

LoginAnswerNoPasswordCheck(username, password) ==
  IF username = Missing \/ password = Missing
    THEN Reply(400, MsgCredentialsMissing, <<>>)
  ELSE IF findByUsername(username) = {}
    THEN Reply(404, MsgNoSuchUser, <<>>)
  ELSE LET user == CHOOSE u \in findByUsername(username) : TRUE IN
    Reply(200, MsgLoggedIn, [userId |-> user.id, username |-> user.username,
                            avatar |-> user.avatar, bio |-> user.bio])

LoginAnswer(username, password) ==
  IF username = Missing \/ password = Missing
    THEN Reply(400, MsgCredentialsMissing, <<>>)
  ELSE IF findByUsername(username) = {}
    THEN Reply(404, MsgNoSuchUser, <<>>)
  ELSE LET user == CHOOSE u \in findByUsername(username) : TRUE IN
    IF ~compareSync(password, user.password)
      THEN Reply(401, MsgWrongPassword, <<>>)
      ELSE Reply(200, MsgLoggedIn, [userId |-> user.id, username |-> user.username,
                                  avatar |-> user.avatar, bio |-> user.bio])

\* One await (findByUsername); everything after it is synchronous.
Login(username, password) ==
  /\ last' = Exchange("login", [username |-> username, password |-> password], <<>>,
                      LoginAnswer(username, password))
  /\ UNCHANGED <<users, profiles, moments, req, nextId>>

\* ------------------------------------------------------- the users service

InitUsers ==
  /\ users = {}
  /\ profiles = {}
  /\ moments = <<>>
  /\ req = [c \in Conns |-> Idle]
  /\ last = NoExchange
  /\ nextId = 1

NextUsers ==
  \/ \E c \in Conns, u \in Usernames \cup {Missing}, p \in Passwords \cup {Missing} :
       RegisterFind(c, u, p)
  \/ \E c \in Conns : RegisterCreate(c)
  \/ \E u \in Usernames \cup {Missing}, p \in Passwords \cup {Missing} : Login(u, p)

SpecUsers == InitUsers /\ [][NextUsers]_vars

\* ------------------------------------------- claims on the users service

UsernamesUnique == \A a, b \in users : a.username = b.username => a = b

\* Every change of the users table is the insert of a register request that is
\* answered success in the same step, and adds that request's row only.
UsersChangedOnlyBySuccess ==
  users' # users =>
    /\ last'.op = "register"
    /\ last'.res.status = 200
    /\ \E row \in users' :
         /\ users' = users \cup {row}
         /\ row.id = last'.res.data.userId
         /\ row.username = last'.in.username

\* C5: after any sequence of register requests, sequential or overlapping, no
\* two stored users have the same username, and a request that does not end in
\* success leaves the users table unchanged.
C5_UniqueUsernames == [](UsernamesUnique) /\ [][UsersChangedOnlyBySuccess]_vars

\* C5 witness: two registrations of one username overlapped; the loser was
\* answered an error while the winner's row is stored.
C5_Witness ==
  /\ last.op = "register"
  /\ last.res.status = 500
  /\ \E u \in users : u.username = last.in.username

\* C6 (as claimed): a register request with both fields present that is not
\* answered success (its username is taken) is answered 409 with the
\* "username already exists" message, never 500.
C6_TakenUsernameAnswered409 ==
  (/\ last.op = "register"
   /\ last.in.username # Missing
   /\ last.in.password # Missing
   /\ last.res.status # 200)
  => (last.res.status = 409 /\ last.res.message = MsgUsernameTaken)

\* What the claim says login answers, from the stored rows.
LoginOutcomeAsClaimed(x) ==
  LET rows == {u \in users : u.username = x.in.username} IN
  IF x.in.username = Missing \/ x.in.password = Missing THEN x.res.status = 400
  ELSE IF rows = {} THEN x.res.status = 404
  ELSE \E u \in rows :
         IF u.password # hashSync(x.in.password) THEN x.res.status = 401
         ELSE /\ x.res.status = 200
              /\ x.res.success
              /\ DOMAIN x.res.data = {"userId", "username", "avatar", "bio"}
              /\ x.res.data.userId = u.id
              /\ x.res.data.username = u.username
              /\ x.res.data.avatar = u.avatar
              /\ x.res.data.bio = u.bio

\* C7: login answers 400 (a field missing), 404 (no such user), 401 (password
\* does not match the stored hash), otherwise success with userId, username,
\* avatar and bio of that user and never the stored password; it changes no
\* stored state.  (The users table cannot change while last is this login: every
\* change of it replaces last.)
C7_LoginOutcomes ==
  /\ [](last.op = "login" => LoginOutcomeAsClaimed(last))
  /\ [][(last'.op = "login" /\ last' # last)
          => UNCHANGED <<users, profiles, moments>>]_vars

\* C7 witness: a login with the right password was answered, and one with a
\* wrong password could be answered next.
C7_Witness ==
  /\ last.op = "login"
  /\ last.res.status = 200
  /\ Cardinality(users) = 2

\* ---------------------------------------------------------- moments table

RECURSIVE CountIncluded(_, _)
\* words.forEach(word => { if (text.includes(word)) score += 1 })
CountIncluded(text, words) ==
  IF words = <<>> THEN 0
  ELSE (IF includes(text, words[1]) THEN 1 ELSE 0) + CountIncluded(text, Tail(words))

analyzeSentiment(text) ==
  LET score == CountIncluded(text, positiveWords) - CountIncluded(text, negativeWords) IN
  IF score > 0 THEN "positive" ELSE IF score < 0 THEN "negative" ELSE "neutral"

extractKeywords(text) ==
  Slice(SelectSeq(interestWords, LAMBDA w : includes(text, w)), 5)

Reverse(s) == [i \in DOMAIN s |-> s[Len(s) + 1 - i]]

\* SELECT * FROM moments WHERE user_id = $1 ORDER BY created_at DESC LIMIT 20
moment_findByUserId(userId) ==
  Slice(Reverse(SelectSeq(moments, LAMBDA m : m.user_id = userId)), 20)

\* The interactions table: no handler of the server writes it.
interactions == <<>>

\* SELECT * FROM interactions WHERE user_id = $1 ORDER BY created_at DESC LIMIT 50
interaction_findByUserId(userId) ==
  Slice(Reverse(SelectSeq(interactions, LAMBDA x : x.user_id = userId)), 50)

MomentRowUnanalyzed(id, userId, content) ==
  [id |-> id, user_id |-> userId, content |-> content, content_type |-> "text",
   sentiment |-> "", keywords |-> <<>>]

\* The row POST /api/moments/create stores for a text moment.
MomentRow(id, userId, content) ==
  [id |-> id, user_id |-> userId, content |-> content, content_type |-> "text",
   sentiment |-> analyzeSentiment(content), keywords |-> extractKeywords(content)]

\* ---------------------------------------------------- soul_profiles table

\* JSON.stringify(value): a string holding the JSON text of value
JSONstringify(value) == [t |-> "string", json |-> value]

\* A JSONB column: PostgreSQL parses the text parameter and stores the value.
JsonbIn(param) == param.json

\* SELECT of a JSONB column: node-postgres hands back the JavaScript value (here
\* an array, `of` strings or objects), not its JSON text.
JsonbOut(value, of) == [t |-> "array", v |-> value, of |-> of]

\* The strings that are JSON texts on their own.
JSONLiterals == {"true", "false", "null"}

\* JSON.parse(x): x is converted to a string first.  An array converts to its
\* elements joined by commas, an object element to "[object Object]": the
\* result is a JSON text only for a one-element array whose element spells a
\* JSON literal.
JSONparse(x) ==
  IF x.t = "string" THEN [ok |-> TRUE, v |-> x.json]
  ELSE IF x.of = "string" /\ Len(x.v) = 1 /\ x.v[1] \in JSONLiterals
    THEN [ok |-> TRUE, v |-> x.v[1]]
  ELSE [ok |-> FALSE]

\* SELECT * FROM soul_profiles WHERE user_id = $1
soulProfile_findByUserId(userId) == {p \in profiles : p.user_id = userId}

ProfilesPrimaryKeyOnly(row) == \E p \in profiles : p.id = row.id

\* soul_profiles: id TEXT PRIMARY KEY, UNIQUE(user_id)
ProfilesConstraintViolated(row) ==
  \E p \in profiles : p.id = row.id \/ p.user_id = row.user_id

\* The columns both INSERT and UPDATE write from profileData.
ProfileColumns(d) ==
  [interests |-> JsonbIn(JSONstringify(d.interests)),
   values |-> JsonbIn(JSONstringify(d.values)),
   communication_style |-> d.communication_style,
   emotion_tendency |-> d.emotion_tendency,
   personality_vector |-> JsonbIn(JSONstringify(d.personality_vector)),
   match_score |-> d.match_score,
   ai_summary |-> d.ai_summary]

\* soulProfileOperations.create: the row INSERT adds
soulProfile_createRow(id, userId, d) ==
  [id |-> id, user_id |-> userId] @@ ProfileColumns(d)

\* soulProfileOperations.update: UPDATE ... WHERE user_id = $n
soulProfile_update(userId, d) ==
  {IF p.user_id = userId
     THEN [id |-> p.id, user_id |-> p.user_id] @@ ProfileColumns(d)
     ELSE p : p \in profiles}

\* ------------------------------------------------ POST /api/profile/analyze

AINull == [null |-> TRUE, text |-> <<>>]
AIText(text) == [null |-> FALSE, text |-> text]

\* The parse stage: `if (aiResponse) { try { match, JSON.parse } catch {} }`.
aiAnalysis(aiResponse) ==
  IF aiResponse.null \/ aiResponse.text = <<>> THEN [parsed |-> FALSE, v |-> EmptyObject]
  ELSE LET jsonMatch == matchObject(aiResponse.text) IN
    IF jsonMatch = <<>> THEN [parsed |-> FALSE, v |-> EmptyObject]
    ELSE LET r == parseObject(jsonMatch) IN
      IF r.ok THEN [parsed |-> TRUE, v |-> r.v] ELSE [parsed |-> FALSE, v |-> EmptyObject]

IsEmptyFieldAlways(field) == TRUE

\* `if (interests.length === 0)`: the test that sends a field to its keyword function
IsEmptyField(field) == Len(field) = 0

\* From the AI call to profileData: the fields of the AI answer, each keyword
\* function where its field came out empty, the match score.
analyzeData(ms, userData, aiResponse) ==
  LET a == aiAnalysis(aiResponse)
      aiInterests == ArrayField(a.v, "interests")
      aiValues == ArrayField(a.v, "values")
      aiVector == ArrayField(a.v, "personalityVector")
      style == Field(a.v, "communicationStyle", "exploring")
      emotion == Field(a.v, "emotionTendency", "balanced")
      interests == IF IsEmptyField(aiInterests)
                     THEN extractInterests(ms, userData.interests) ELSE aiInterests
      values == IF IsEmptyField(aiValues)
                  THEN analyzeValues(ms, userData.values) ELSE aiValues
      vector == IF IsEmptyField(aiVector)
                  THEN generatePersonalityVector(interests, values, style, emotion)
                  ELSE aiVector
  IN [ai |-> IF aiResponse.null THEN "failed"
             ELSE IF a.parsed THEN "parsed" ELSE "unparsable",
      calls |-> (IF IsEmptyField(aiInterests) THEN {"extractInterests"} ELSE {})
                \cup (IF IsEmptyField(aiValues) THEN {"analyzeValues"} ELSE {})
                \cup (IF IsEmptyField(aiVector) THEN {"generatePersonalityVector"} ELSE {}),
      momentCount |-> Len(ms),
      interactionCount |-> 0,
      aiEnhanced |-> ~aiResponse.null,
      profileData |->
        [interests |-> interests, values |-> values,
         communication_style |-> style, emotion_tendency |-> emotion,
         personality_vector |-> vector,
         match_score |-> calculateMatchScore(vector),
         ai_summary |-> Field(a.v, "summary", "")]]

\* Validation, findById, the reads of moments and interactions, the AI call and
\* everything computed from its answer.
AnalyzeCompute(c, userId, userData, aiResponse) ==
  /\ Free(c)
  /\ LET in == [userId |-> userId, userData |-> userData] IN
     IF userId = MissingId
       THEN /\ last' = Exchange("analyze", in, <<>>, Reply(400, MsgUserIdMissing, <<>>))
            /\ req' = req
     ELSE IF findById(userId) = {}
       THEN /\ last' = Exchange("analyze", in, <<>>, Reply(404, MsgNoSuchUser, <<>>))
            /\ req' = req
     ELSE /\ req' = [req EXCEPT ![c] =
                 [pc |-> "find", op |-> "analyze", in |-> in,
                  loc |-> analyzeData(moment_findByUserId(userId), userData, aiResponse)]]
          /\ last' = last
  /\ UNCHANGED <<users, profiles, moments, nextId>>

\* const existingProfile = await soulProfileOperations.findByUserId(userId)
AnalyzeFind(c) ==
  /\ req[c].pc = "find"
  /\ req' = [req EXCEPT ![c] =
       [pc |-> "write", op |-> "analyze", in |-> req[c].in,
        loc |-> [existing |-> soulProfile_findByUserId(req[c].in.userId) # {}]
                @@ req[c].loc]]
  /\ UNCHANGED <<users, profiles, moments, last, nextId>>

\* The response body of a successful analyze.
AnalyzeReply(userId, loc) ==
  LET d == loc.profileData IN
  Reply(200, MsgAnalyzed,
    [userId |-> userId,
     profile |-> [interests |-> d.interests, values |-> d.values,
                  communicationStyle |-> d.communication_style,
                  emotionTendency |-> d.emotion_tendency,
                  personalityVector |-> d.personality_vector,
                  matchScore |-> d.match_score, aiSummary |-> d.ai_summary],
     analysis |-> [momentCount |-> loc.momentCount,
                   interactionCount |-> loc.interactionCount,
                   aiEnhanced |-> loc.aiEnhanced]])

\* update or create, then the answer; a rejected INSERT is answered 500.
AnalyzeWrite(c) ==
  /\ req[c].pc = "write"
  /\ req[c].loc.existing \/ nextId <= MaxIds
  /\ LET in == req[c].in
         loc == req[c].loc
         row == soulProfile_createRow(nextId, in.userId, loc.profileData)
     IN IF loc.existing
          THEN /\ profiles' = soulProfile_update(in.userId, loc.profileData)
               /\ last' = Exchange("analyze", in, loc, AnalyzeReply(in.userId, loc))
               /\ nextId' = nextId
        ELSE IF ProfilesConstraintViolated(row)
          THEN /\ profiles' = profiles
               /\ last' = Exchange("analyze", in, loc, Reply(500, MsgServerError, <<>>))
               /\ nextId' = nextId
        ELSE /\ profiles' = profiles \cup {row}
             /\ last' = Exchange("analyze", in, loc, AnalyzeReply(in.userId, loc))
             /\ nextId' = nextId + 1
  /\ req' = [req EXCEPT ![c] = Idle]
  /\ UNCHANGED <<users, moments>>

\* ---------------------------------------------------- GET /api/profile/get

\* The `profileData` object of the handler, or a SyntaxError from JSON.parse.
GetProfileData(profile) ==
  LET interests == JSONparse(JsonbOut(profile.interests, "string"))
      values == JSONparse(JsonbOut(profile.values, "string"))
      vector == JSONparse(JsonbOut(profile.personality_vector, "object"))
  IN IF interests.ok /\ values.ok /\ vector.ok
       THEN [ok |-> TRUE,
             v |-> [id |-> profile.id, userId |-> profile.user_id,
                    interests |-> interests.v, values |-> values.v,
                    communicationStyle |-> profile.communication_style,
                    emotionTendency |-> profile.emotion_tendency,
                    personalityVector |-> vector.v,
                    matchScore |-> profile.match_score,
                    aiSummary |-> profile.ai_summary]]
       ELSE [ok |-> FALSE]

GetAnswer(userId) ==
  IF userId = MissingId THEN Reply(400, MsgUserIdMissing, <<>>)
  ELSE IF findById(userId) = {} THEN Reply(404, MsgNoSuchUser, <<>>)
  ELSE IF soulProfile_findByUserId(userId) = {} THEN Reply(404, MsgNoProfile, <<>>)
  ELSE LET user == CHOOSE u \in findById(userId) : TRUE
           profile == CHOOSE p \in soulProfile_findByUserId(userId) : TRUE
           parsed == GetProfileData(profile)
       IN IF parsed.ok
            THEN Reply(200, "", [user |-> [id |-> user.id, username |-> user.username,
                                           avatar |-> user.avatar, bio |-> user.bio],
                                 profile |-> parsed.v])
            ELSE Reply(500, MsgServerError, <<>>)

\* findById, then findByUserId on soul_profiles; no row of users is ever deleted,
\* so the two reads are one step.
ProfileGet(userId) ==
  /\ last' = Exchange("get", [userId |-> userId], <<>>, GetAnswer(userId))
  /\ UNCHANGED <<users, profiles, moments, req, nextId>>

\* ----------------------------------------------------- the profile service

\* Field bodies of the AI answers used as inputs.
FullFields ==
  [interests |-> <<"art", "travel">>, values |-> <<"growth">>,
   communicationStyle |-> "interactive", emotionTendency |-> "optimistic",
   personalityVector |-> <<[dimension |-> "openness", score |-> 85],
                           [dimension |-> "extraversion", score |-> 70]>>,
   summary |-> "summary"]

PartialFields == [interests |-> <<"food">>, values |-> <<>>, summary |-> ""]

AIFailed == AINull
AINoJson == AIText(<<Prose>>)
AIBadJson == AIText(<<Prose, LBrace, Prose, RBrace>>)
AITwoObjects ==
  AIText(<<LBrace, Members(FullFields), RBrace, Prose, LBrace, Members(FullFields), RBrace>>)
AIEmptyObject == AIText(<<LBrace, RBrace, Prose>>)
AIPartial == AIText(<<Prose, LBrace, Members(PartialFields), RBrace>>)
AIFull == AIText(<<Prose, LBrace, Members(FullFields), RBrace, Prose>>)

NoUserData == [interests |-> <<>>, values |-> <<>>]
SomeUserData == [interests |-> <<"music", "art", "music">>, values |-> <<"freedom">>]

\* The registered users and their moments when the profile service is exercised:
\* alice (1) posted two moments, bob (2) none; 9 is the id of no user.
RegisteredUsers ==
  {[id |-> 1, username |-> "alice", password |-> hashSync("pw1"),
    avatar |-> <<"dicebear", 1>>, bio |-> DefaultBio],
   [id |-> 2, username |-> "bob", password |-> hashSync("pw2"),
    avatar |-> <<"dicebear", 2>>, bio |-> DefaultBio]}

PostedMoments == <<MomentRow(3, 1, TextStudyTired), MomentRow(4, 1, TextArtLove)>>

\* The analyze requests drawn: (userId, userData, the AI model's answer).
AnalyzeRequests ==
  {<<1, NoUserData, AIFailed>>, <<1, SomeUserData, AIBadJson>>,
   <<1, NoUserData, AIFull>>, <<2, NoUserData, AIPartial>>,
   <<9, NoUserData, AIFailed>>, <<MissingId, NoUserData, AIFailed>>}

InitProfile ==
  /\ users = RegisteredUsers
  /\ profiles = {}
  /\ moments = PostedMoments
  /\ req = [c \in Conns |-> Idle]
  /\ last = NoExchange
  /\ nextId = 5

NextProfile ==
  \/ \E c \in Conns, r \in AnalyzeRequests : AnalyzeCompute(c, r[1], r[2], r[3])
  \/ \E c \in Conns : AnalyzeFind(c)
  \/ \E c \in Conns : AnalyzeWrite(c)
  \/ \E userId \in {1, 2, 9, MissingId} : ProfileGet(userId)

SpecProfile == InitProfile /\ [][NextProfile]_vars

\* ------------------------------------------- claims on the profile service

\* The stored row of user u, when there is one.
ProfileOf(u) == CHOOSE p \in profiles : p.user_id = u

\* C2 (as claimed): an analyze for an existing user whose AI call failed, or
\* whose AI text could not be parsed, is answered success:true and has stored a
\* profile with the keyword functions' interests, values and personality
\* vector, communication style "exploring" and emotion tendency "balanced".
C2_FallbackAnalyzeSucceeds ==
  (/\ last.op = "analyze"
   /\ findById(last.in.userId) # {}
   /\ last.loc.ai \in {"failed", "unparsable"})
  => LET ms == moment_findByUserId(last.in.userId)
         interests == extractInterests(ms, last.in.userData.interests)
         values == analyzeValues(ms, last.in.userData.values)
     IN /\ last.res.status = 200
        /\ last.res.success
        /\ soulProfile_findByUserId(last.in.userId) # {}
        /\ LET p == ProfileOf(last.in.userId) IN
           /\ p.interests = interests
           /\ p.values = values
           /\ p.personality_vector =
                generatePersonalityVector(interests, values, "exploring", "balanced")
           /\ p.communication_style = "exploring"
           /\ p.emotion_tendency = "balanced"

OneProfilePerUser == \A p, q \in profiles : p.user_id = q.user_id => p = q

\* Every change of soul_profiles happens in the step that answers an analyze
\* success for an existing user, and is the insert of that user's first row or
\* the update of that user's only row.
ProfilesChangedOnlyByAnalyze ==
  profiles' # profiles =>
    /\ last'.op = "analyze"
    /\ last'.res.status = 200
    /\ findById(last'.in.userId) # {}
    /\ LET u == last'.in.userId
           old == {p \in profiles : p.user_id = u}
           new == {p \in profiles' : p.user_id = u}
       IN /\ {p \in profiles' : p.user_id # u} = {p \in profiles : p.user_id # u}
          /\ Cardinality(new) = 1
          /\ \/ old = {}
             \/ /\ Cardinality(old) = 1
                /\ \A p \in old, q \in new : p.id = q.id

\* C8: there is at most one soul_profiles row per user; analyze inserts a row
\* when the user has none and otherwise updates the existing row; an analyze
\* answered 404 or 400 changes nothing.
C8_OneProfilePerUser == [](OneProfilePerUser) /\ [][ProfilesChangedOnlyByAnalyze]_vars

\* C8 witness: an analyze found the user's row and updated it.
C8_Witness ==
  /\ last.op = "analyze"
  /\ last.res.status = 200
  /\ last.loc.existing
  /\ Cardinality(profiles) = 2

\* C9 (as claimed): a get for u that directly follows the answer of a successful
\* analyze for u is answered 200 with the interests, values, communication
\* style, emotion tendency, personality vector, match score and summary that
\* the analyze response reported.
C9_GetReturnsAnalyzed ==
  [][(/\ last.op = "analyze"
      /\ last.res.status = 200
      /\ last'.op = "get"
      /\ last'.in.userId = last.in.userId)
     => /\ last'.res.status = 200
        /\ LET a == last.res.data.profile
               g == last'.res.data.profile
           IN /\ g.interests = a.interests
              /\ g.values = a.values
              /\ g.communicationStyle = a.communicationStyle
              /\ g.emotionTendency = a.emotionTendency
              /\ g.personalityVector = a.personalityVector
              /\ g.matchScore = a.matchScore
              /\ g.aiSummary = a.aiSummary]_vars

\* C10 (as claimed): get modifies nothing and answers 400 without a userId, 404
\* "user does not exist" for an unknown user, 404 for a user without a soul
\* profile, and success with the user and the profile otherwise.  (While last
\* is a get, no table has changed since it was answered.)
C10_GetOutcomes ==
  last.op = "get" =>
    IF last.in.userId = MissingId THEN last.res.status = 400
    ELSE IF ~\E u \in users : u.id = last.in.userId
      THEN last.res.status = 404 /\ last.res.message = MsgNoSuchUser
    ELSE IF ~\E p \in profiles : p.user_id = last.in.userId
      THEN last.res.status = 404
    ELSE /\ last.res.status = 200
         /\ last.res.success
         /\ last.res.data.user.id = last.in.userId
         /\ last.res.data.profile.userId = last.in.userId

\* ------------------------------------------------ POST /api/moments/create

\* The arguments of momentOperations.create are evaluated, analyzeSentiment and
\* extractKeywords with them, before the INSERT is sent; the handler calls no
\* AI model.  moments.user_id REFERENCES users(id): an INSERT for an unknown
\* user is rejected and answered 500.
MomentCreate(userId, content) ==
  /\ LET in == [userId |-> userId, content |-> content]
         ran == [aiCalls |-> 0, aiFailed |-> FALSE,
                 calls |-> {"analyzeSentiment", "extractKeywords"}]
     IN IF userId = MissingId \/ content = <<>>
          THEN /\ last' = Exchange("moment_create", in,
                             [aiCalls |-> 0, aiFailed |-> FALSE, calls |-> {}],
                             Reply(400, MsgMomentMissing, <<>>))
               /\ UNCHANGED <<moments, nextId>>
        ELSE IF findById(userId) = {}
          THEN /\ last' = Exchange("moment_create", in, ran, Reply(500, MsgServerError, <<>>))
               /\ UNCHANGED <<moments, nextId>>
        ELSE /\ Len(moments) < MaxMoments
             /\ nextId <= MaxIds
             /\ moments' = Append(moments, MomentRow(nextId, userId, content))
             /\ nextId' = nextId + 1
             /\ last' = Exchange("moment_create", in, ran,
                                 Reply(200, MsgMomentCreated, [momentId |-> nextId]))
  /\ UNCHANGED <<users, profiles, req>>

MomentContents == {<<>>, TextHello, TextTravel, TextArtLove, TextStudyTired}

InitMoments ==
  /\ users = RegisteredUsers
  /\ profiles = {}
  /\ moments = <<>>
  /\ req = [c \in Conns |-> Idle]
  /\ last = NoExchange
  /\ nextId = 3

NextMoments == \E userId \in {1, 2, 9, MissingId}, content \in MomentContents :
                 MomentCreate(userId, content)

SpecMoments == InitMoments /\ [][NextMoments]_vars

\* C4 (as claimed): analyzeSentiment and extractKeywords are a fallback only: a
\* moments/create request in which no AI call has failed does not run them.
C4_SentimentOnlyAfterAIFailure ==
  (last.op = "moment_create" /\ ~last.loc.aiFailed)
  => (last.loc.calls \cap {"analyzeSentiment", "extractKeywords"} = {})

\* C4 (amended): every moments/create that carries a userId and a content runs
\* analyzeSentiment and extractKeywords on the content and calls no AI model;
\* when it succeeds, the stored row carries their outputs.  A request answered
\* 400 runs neither.
C4_SentimentOnEveryCreate ==
  last.op = "moment_create" =>
    /\ last.loc.aiCalls = 0
    /\ IF last.in.userId = MissingId \/ last.in.content = <<>>
         THEN last.res.status = 400 /\ last.loc.calls = {}
         ELSE /\ last.loc.calls = {"analyzeSentiment", "extractKeywords"}
              /\ last.res.status = 200 =>
                   LET row == moments[Len(moments)] IN
                   /\ row.id = last.res.data.momentId
                   /\ row.content = last.in.content
                   /\ row.sentiment = analyzeSentiment(last.in.content)
                   /\ row.keywords = extractKeywords(last.in.content)

\* C4 witness: a moment with a sentiment and a keyword was stored, and no AI
\* call was made for it.
C4_Witness ==
  /\ last.op = "moment_create"
  /\ last.res.status = 200
  /\ last.loc.aiCalls = 0
  /\ moments[Len(moments)].sentiment = "positive"
  /\ moments[Len(moments)].keywords # <<>>

\* -------------------------------------------- the analysis as a function

MomentTexts == {TextHello, TextAI, TextTravel, TextArtLove, TextStudyTired}

\* The lists findByUserId can return: up to MaxMoments rows of one user.
MomentLists ==
  UNION {[1..n -> {MomentRow(3, 1, t) : t \in MomentTexts}] : n \in 0..MaxMoments}

AIAnswers == {AIFailed, AINoJson, AIBadJson, AITwoObjects, AIEmptyObject, AIPartial, AIFull}

\* The analysis stage of /api/profile/analyze applied to the inputs drawn.
AnalyzeData ==
  /\ last.op = "analyzeInput"
  /\ last' = Exchange("analyzeData", last.in,
                      analyzeData(last.in.moments, last.in.userData, last.in.ai), <<>>)
  /\ UNCHANGED <<users, profiles, moments, req, nextId>>

InitAnalysis ==
  /\ users = RegisteredUsers
  /\ profiles = {}
  /\ moments = <<>>
  /\ req = [c \in Conns |-> Idle]
  /\ nextId = 3
  /\ \E ms \in MomentLists, userData \in {NoUserData, SomeUserData}, ai \in AIAnswers :
       last = Exchange("analyzeInput",
                       [moments |-> ms, userData |-> userData, ai |-> ai], <<>>, <<>>)

NextAnalysis == AnalyzeData

SpecAnalysis == InitAnalysis /\ [][NextAnalysis]_vars

\* C3 (as claimed): the keyword functions run only when the AI call failed or
\* its output was unparsable; none of them runs when the AI response parsed as
\* a JSON object.
C3_KeywordFunctionsOnlyOnFailure ==
  last.op = "analyzeData" =>
    /\ last.loc.calls # {} => last.loc.ai \in {"failed", "unparsable"}
    /\ last.loc.ai = "parsed" => last.loc.calls = {}

\* C3 (amended): each keyword function runs exactly when its field is empty
\* after the AI step: extractInterests when the AI gave no interests,
\* analyzeValues when it gave no values, generatePersonalityVector when it gave
\* no personality vector.  So all three run when the AI call failed or its
\* output was unparsable, and none runs when the response parsed as an object
\* with all three fields non-empty; a field the AI gave is stored as given.
C3_KeywordFunctionsFillEmptyFields ==
  last.op = "analyzeData" =>
    LET ai == last.in.ai
        m == IF ai.null THEN <<>> ELSE matchObject(ai.text)
        obj == IF m # <<>> /\ parseObject(m).ok THEN parseObject(m).v ELSE EmptyObject
        given == [f \in {"interests", "values", "personalityVector"} |->
                    IF f \in DOMAIN obj THEN obj[f] ELSE <<>>]
        d == last.loc.profileData
    IN /\ ("extractInterests" \in last.loc.calls) = (given.interests = <<>>)
       /\ ("analyzeValues" \in last.loc.calls) = (given.values = <<>>)
       /\ ("generatePersonalityVector" \in last.loc.calls) = (given.personalityVector = <<>>)
       /\ last.loc.ai \in {"failed", "unparsable"} =>
            last.loc.calls = {"extractInterests", "analyzeValues", "generatePersonalityVector"}
       /\ given.interests # <<>> => d.interests = given.interests
       /\ given.values # <<>> => d.values = given.values
       /\ given.personalityVector # <<>> => d.personality_vector = given.personalityVector
       /\ given.interests = <<>> =>
            d.interests = extractInterests(last.in.moments, last.in.userData.interests)
       /\ given.values = <<>> =>
            d.values = analyzeValues(last.in.moments, last.in.userData.values)

\* C3 witness: the AI response parsed as an object that gave interests but no
\* values, and analyzeValues ran (on a moment that shows a value).
C3_Witness ==
  /\ last.op = "analyzeData"
  /\ last.loc.ai = "parsed"
  /\ last.loc.calls = {"analyzeValues", "generatePersonalityVector"}
  /\ last.loc.profileData.values # <<>>

\* ------------------------------------------- routes/assistant.js: the AI step

MsgGenerateMissing == "missing parameters: content and type"        \* 缺少必要参数：content 和 type
MsgUnsupportedType == "unsupported type, choose moment, icebreaker or bio"
MsgConversationMissing == "missing parameter: conversation (array)" \* 缺少必要参数：conversation（数组格式）
MsgCommentMissing == "missing parameter: momentContent"             \* 缺少必要参数：momentContent
MsgAIUnavailable == "AI service unavailable, retry later"           \* AI生成服务暂时不可用，请稍后重试
CommentTip == "choose the comment that says what you feel"

\* callAIModel of assistant.js: the text of the completion, or it throws.
AIThrows == [thrown |-> TRUE, text |-> <<>>]
AISays(text) == [thrown |-> FALSE, text |-> text]

LBrack == [k |-> "["]
RBrack == [k |-> "]"]
Elements(items) == [k |-> "elements", v |-> items]

\* aiResponse.match(/\[[\s\S]*\]/): greedy, from the first "[" to the last "]".
\* <<>> stands for null (no match).
matchArray(text) ==
  LET opens == Positions(text, "[")
      closes == Positions(text, "]")
  IN IF opens = {} \/ closes = {} \/ SetMax(closes) < SetMin(opens) THEN <<>>
     ELSE SubSeq(text, SetMin(opens), SetMax(closes))

\* JSON.parse of a matched [...] fragment: an array, or a SyntaxError.
parseArray(fragment) ==
  IF Len(fragment) = 2 THEN [ok |-> TRUE, v |-> <<>>]
  ELSE IF Len(fragment) = 3 /\ fragment[2].k = "elements"
    THEN [ok |-> TRUE, v |-> fragment[2].v]
  ELSE [ok |-> FALSE]

\* The JSON value null as an element of an array.
Null == [null |-> TRUE]

\* {...item}: the own properties of item, none for null
spread(item) == IF item = Null THEN <<>> ELSE item

\* parsedData.map(item => ({ id: uuidv4(), ...item })): a property `id` of the
\* item comes after the generated one and replaces it.
withIds(parsedData) ==
  [i \in DOMAIN parsedData |-> spread(parsedData[i]) @@ [id |-> nextId + i - 1]]

\* The inner try of /generate and /comment: what it built, or that it threw.
arrayFromAI(ai) ==
  IF ai.thrown THEN [threw |-> TRUE, v |-> <<>>]
  ELSE LET jsonMatch == matchArray(ai.text) IN
       IF jsonMatch = <<>> THEN [threw |-> TRUE, v |-> <<>>]
       ELSE LET parsedData == parseArray(jsonMatch) IN
            IF ~parsedData.ok THEN [threw |-> TRUE, v |-> <<>>]
            ELSE [threw |-> FALSE, v |-> withIds(parsedData.v)]

catchNothing(attempt, fallback) == attempt

\* `catch (aiError) { ... }`: what the inner try threw is replaced by the
\* handler's default content.
catchAIError(attempt, fallback) ==
  IF attempt.threw THEN [threw |-> FALSE, v |-> fallback] ELSE attempt

\* A literal chunk of a template string, written as one element.
Lit(name) == <<name>>

\* ------------------------------------------- POST /api/assistant/generate

GenerateTypes == {"moment", "icebreaker", "bio"}

\* The default templates of the catch branch, by type.
DefaultSuggestions(type, content) ==
  CASE type = "moment" ->
         << [id |-> nextId, style |-> "literary",
             text |-> content \o Lit(", a moment like a poem"), emoji |-> "blossom"],
            [id |-> nextId + 1, style |-> "funny",
             text |-> content \o Lit("! life is short, I choose joy"), emoji |-> "joy"],
            [id |-> nextId + 2, style |-> "deep",
             text |-> Lit("thoughts on ") \o content \o Lit(": only now is worth keeping"),
             emoji |-> "moon"] >>
    [] type = "icebreaker" ->
         << [id |-> nextId, approach |-> "shared interest",
             text |-> Lit("hi! we seem to see ") \o content \o Lit(" alike, chat?"),
             tone |-> "friendly"],
            [id |-> nextId + 1, approach |-> "sincere question",
             text |-> Lit("hello! drawn by your view of ") \o content \o Lit(", tell me more?"),
             tone |-> "sincere"],
            [id |-> nextId + 2, approach |-> "light humour",
             text |-> Lit("hey! seeing ") \o content \o Lit(", at last a kindred spirit!"),
             tone |-> "light"] >>
    [] type = "bio" ->
         << [id |-> nextId, style |-> "minimal",
             text |-> content \o Lit(" | exploring the possibilities of life"),
             length |-> "short"],
            [id |-> nextId + 1, style |-> "poetic",
             text |-> content \o Lit(", free as the wind, bright as the stars"),
             length |-> "medium"],
            [id |-> nextId + 2, style |-> "real",
             text |-> Lit("an ordinary person who loves ") \o content \o Lit(", every meeting has its meaning"),
             length |-> "long"] >>

GenerateNoContentCheck(content, type, ai) ==
  /\ LET in == [content |-> content, type |-> type, ai |-> ai]
     IN IF type \notin GenerateTypes
          THEN last' = Exchange("generate", in, [aiCalls |-> 0, source |-> "none"],
                                Reply(400, MsgUnsupportedType, <<>>))
        ELSE LET attempt == arrayFromAI(ai)
                 generated == catchAIError(attempt, DefaultSuggestions(type, content))
             IN last' = Exchange("generate", in,
                                 [aiCalls |-> 1,
                                  source |-> IF attempt.threw THEN "default" ELSE "ai"],
                                 Reply(200, Missing,
                                       [original |-> content, type |-> type,
                                        suggestions |-> generated.v]))
  /\ UNCHANGED <<users, profiles, moments, req, nextId>>

\* The handler: validation, the AI step with its catch, the response.  The
\* uuids of a response are not stored, nextId stays.  data.timestamp is the
\* clock's and is left out.
Generate(content, type, ai) ==
  /\ LET in == [content |-> content, type |-> type, ai |-> ai]
         notCalled == [aiCalls |-> 0, source |-> "none"]
     IN IF content = <<>> \/ type = Missing
          THEN last' = Exchange("generate", in, notCalled, Reply(400, MsgGenerateMissing, <<>>))
        ELSE IF type \notin GenerateTypes
          THEN last' = Exchange("generate", in, notCalled, Reply(400, MsgUnsupportedType, <<>>))
        ELSE LET attempt == arrayFromAI(ai)
                 generated == catchAIError(attempt, DefaultSuggestions(type, content))
                 ran == [aiCalls |-> 1,
                         source |-> IF attempt.threw THEN "default" ELSE "ai"]
             IN IF generated.threw
                  THEN last' = Exchange("generate", in, ran, Reply(500, MsgAIUnavailable, <<>>))
                  ELSE last' = Exchange("generate", in, ran,
                                 Reply(200, Missing,
                                       [original |-> content, type |-> type,
                                        suggestions |-> generated.v]))
  /\ UNCHANGED <<users, profiles, moments, req, nextId>>

\* -------------------------------------------- POST /api/assistant/comment

\* The default comments of the catch branch.
DefaultComments(momentContent) ==
  << [id |-> nextId, style |-> "resonance",
      text |-> Lit("so true! ") \o Slice(momentContent, 20) \o Lit("...this speaks to my heart"),
      engagement |-> "high"],
     [id |-> nextId + 1, style |-> "curious",
      text |-> Lit("curious about this, can you say more?"), engagement |-> "medium"],
     [id |-> nextId + 2, style |-> "encouraging",
      text |-> Lit("great share! it made me think again"), engagement |-> "medium"] >>

\* authorProfile only enters the prompt and is left out.
Comment(momentContent, ai) ==
  /\ LET in == [momentContent |-> momentContent, ai |-> ai]
     IN IF momentContent = <<>>
          THEN last' = Exchange("comment", in, [aiCalls |-> 0, source |-> "none"],
                                Reply(400, MsgCommentMissing, <<>>))
        ELSE LET attempt == arrayFromAI(ai)
                 comments == catchAIError(attempt, DefaultComments(momentContent))
                 ran == [aiCalls |-> 1,
                         source |-> IF attempt.threw THEN "default" ELSE "ai"]
             IN IF comments.threw
                  THEN last' = Exchange("comment", in, ran, Reply(500, MsgAIUnavailable, <<>>))
                  ELSE last' = Exchange("comment", in, ran,
                                 Reply(200, Missing,
                                       [comments |-> comments.v, tip |-> CommentTip]))
  /\ UNCHANGED <<users, profiles, moments, req, nextId>>

\* -------------------------------------------- POST /api/assistant/suggest

\* getTopicIcon: iconMap[category] || '💭'
getTopicIcon(category) ==
  CASE category = "deep talk" -> "dizzy"          \* 深度交流
    [] category = "interests" -> "palette"        \* 兴趣探索
    [] category = "values" -> "star"              \* 价值观
    [] category = "lifestyle" -> "sun"            \* 生活方式
    [] category = "future" -> "rocket"            \* 未来憧憬
    [] category = "feelings" -> "heart"           \* 情感交流
    [] category = "work and study" -> "books"     \* 工作学习
    [] OTHER -> "thought"

\* const topics of the catch branch
topics == <<
  [category |-> "deep talk", question |-> "which superpower would you pick?", icon |-> "dizzy"],
  [category |-> "interests", question |-> "any new hobby lately?", icon |-> "palette"],
  [category |-> "values", question |-> "the three most important things in life?", icon |-> "star"],
  [category |-> "lifestyle", question |-> "how is your ideal weekend?", icon |-> "sun"],
  [category |-> "future", question |-> "who do you want to be in five years?", icon |-> "rocket"] >>

\* suggestions.push({ id: uuidv4(), ... }): the k-th uuid of the request
push(suggestions, item) == Append(suggestions, [id |-> nextId + Len(suggestions)] @@ item)

RECURSIVE pushTopics(_, _)
\* aiData.topics.forEach(topic => suggestions.push({...})); reading a property
\* of a null topic throws, with the earlier topics already pushed.
pushTopics(suggestions, aiTopics) ==
  IF aiTopics = <<>> THEN [threw |-> FALSE, v |-> suggestions]
  ELSE IF Head(aiTopics) = Null THEN [threw |-> TRUE, v |-> suggestions]
  ELSE pushTopics(push(suggestions,
                       [type |-> "topic", priority |-> "high",
                        content |-> <<Head(aiTopics).category, "topic">>,
                        question |-> Head(aiTopics).question,
                        icon |-> getTopicIcon(Head(aiTopics).category)]),
                  Tail(aiTopics))

\* The inner try of /suggest: the suggestions pushed, and whether it threw.
suggestionsFromAI(ai) ==
  IF ai.thrown THEN [threw |-> TRUE, v |-> <<>>]
  ELSE LET jsonMatch == matchObject(ai.text) IN
       IF jsonMatch = <<>> THEN [threw |-> TRUE, v |-> <<>>]
       ELSE LET parsed == parseObject(jsonMatch) IN
            IF ~parsed.ok THEN [threw |-> TRUE, v |-> <<>>]
            ELSE LET aiData == parsed.v
                     withTopics == pushTopics(<<>>, ArrayField(aiData, "topics"))
                 IN IF withTopics.threw THEN withTopics
                    ELSE IF "tips" \in DOMAIN aiData
                      THEN [threw |-> FALSE,
                            v |-> push(withTopics.v,
                                       [type |-> "tip", priority |-> "medium",
                                        content |-> "conversation tips",
                                        tips |-> aiData.tips])]
                    ELSE withTopics

stageSuggestionUpToFive(messageCount, lastMessage, rnd) ==
  IF messageCount <= 5
    THEN [type |-> "topic", priority |-> "high",
          content |-> "share a personal experience",
          example |-> Lit("that reminds me of ")
                      \o (IF includes(lastMessage, TextTravel)
                            THEN Lit("an unforgettable adventure")
                            ELSE Lit("a fun experience"))
                      \o Lit("...")]
  ELSE IF messageCount < 10
    THEN [type |-> "deepening", priority |-> "medium",
          content |-> <<"deepen", topics[rnd + 1].category>>,
          question |-> topics[rnd + 1].question,
          icon |-> topics[rnd + 1].icon]
  ELSE [type |-> "activity", priority |-> "high",
        content |-> "meet offline or join an activity",
        examples |-> <<"see an exhibition?", "coffee this weekend?", "join an event?">>]

\* The suggestion of the catch branch, by the length of the conversation;
\* rnd is Math.floor(Math.random() * topics.length).
stageSuggestion(messageCount, lastMessage, rnd) ==
  IF messageCount < 5
    THEN [type |-> "topic", priority |-> "high",
          content |-> "share a personal experience",
          example |-> Lit("that reminds me of ")
                      \o (IF includes(lastMessage, TextTravel)
                            THEN Lit("an unforgettable adventure")
                            ELSE Lit("a fun experience"))
                      \o Lit("...")]
  ELSE IF messageCount >= 5 /\ messageCount < 10
    THEN LET randomTopic == topics[rnd + 1] IN
         [type |-> "deepening", priority |-> "medium",
          content |-> <<"deepen", randomTopic.category>>,
          question |-> randomTopic.question,
          icon |-> randomTopic.icon]
  ELSE [type |-> "activity", priority |-> "high",
        content |-> "meet offline or join an activity",
        examples |-> <<"see an exhibition?", "coffee this weekend?", "join an event?">>]

responseSuggestion ==
  [type |-> "response", priority |-> "urgent",
   content |-> "the other side asked a question, answer soon",
   tip |-> "share your thoughts and ask back"]

interactiveSuggestion ==
  [type |-> "interactive", priority |-> "low",
   content |-> "make the conversation more fun",
   ideas |-> << [type |-> "emoji", text |-> "use emoji"],
                [type |-> "image", text |-> "share pictures"],
                [type |-> "voice", text |-> "send voice messages"] >>]

QuestionMarkAsciiOnly == <<"?">>

QuestionMark == <<"?">>
QuestionMarkWide == <<"uff1f">>   \* ？

\* A conversation of the request body: an array of messages, or anything else.
NotAnArray == [isArray |-> FALSE, items |-> <<>>]
Conversation(messages) == [isArray |-> TRUE, items |-> messages]

Suggest(conversation, ai) ==
  /\ LET in == [conversation |-> conversation, ai |-> ai]
     IN IF ~conversation.isArray
          THEN last' = Exchange("suggest", in, [aiCalls |-> 0, source |-> "none", rnd |-> 0],
                                Reply(400, MsgConversationMissing, <<>>))
        ELSE LET messageCount == Len(conversation.items)
                 lastMessage == IF messageCount = 0 THEN <<>>
                                ELSE conversation.items[messageCount].content
                 attempt == suggestionsFromAI(ai)
                 \* Math.random() is called in the 5..9 branch of the catch only
                 draws == IF attempt.threw /\ messageCount >= 5 /\ messageCount < 10
                            THEN 0..(Len(topics) - 1) ELSE {0}
             IN \E rnd \in draws :
                  LET caught == catchAIError(attempt,
                                  push(attempt.v, stageSuggestion(messageCount, lastMessage, rnd)))
                      withResponse ==
                        IF includes(lastMessage, QuestionMarkWide) \/ includes(lastMessage, QuestionMark)
                          THEN push(caught.v, responseSuggestion) ELSE caught.v
                      suggestions == push(withResponse, interactiveSuggestion)
                      ran == [aiCalls |-> 1,
                              source |-> IF attempt.threw THEN "default" ELSE "ai",
                              rnd |-> rnd]
                  IN IF caught.threw
                       THEN last' = Exchange("suggest", in, ran, Reply(500, MsgAIUnavailable, <<>>))
                       ELSE last' = Exchange("suggest", in, ran,
                                      Reply(200, Missing,
                                            [conversationLength |-> messageCount,
                                             suggestions |-> suggestions]))
  /\ UNCHANGED <<users, profiles, moments, req, nextId>>

\* --------------------------------------------------- the assistant service

\* Elements of the arrays the AI model answers with.
ItemLiterary == [style |-> "literary", text |-> TextHello, emoji |-> "blossom"]
ItemFunny == [style |-> "funny", text |-> TextTravel, emoji |-> "joy"]
ItemDeep == [style |-> "deep", text |-> TextArtLove, emoji |-> "moon"]
ItemOwnId == [id |-> 1, style |-> "literary", text |-> TextHello, emoji |-> "blossom"]

AnswerNoJson == AISays(<<Prose>>)
ArrayObjectOnly == AISays(<<Prose, LBrace, Members(FullFields), RBrace>>)
ArrayBadJson == AISays(<<Prose, LBrack, Prose, RBrack>>)
ArrayTwice ==
  AISays(<<LBrack, Elements(<<ItemLiterary>>), RBrack, Prose,
           LBrack, Elements(<<ItemFunny>>), RBrack>>)
ArrayEmpty == AISays(<<Prose, LBrack, RBrack>>)
ArrayThree == AISays(<<Prose, LBrack, Elements(<<ItemLiterary, ItemFunny, ItemDeep>>), RBrack, Prose>>)
ArrayTwo == AISays(<<LBrack, Elements(<<ItemLiterary, ItemFunny>>), RBrack>>)
ArrayOwnIds == AISays(<<LBrack, Elements(<<ItemOwnId, ItemOwnId, ItemDeep>>), RBrack>>)
ArrayNull == AISays(<<LBrack, Elements(<<Null>>), RBrack>>)

ArrayAnswers ==
  {AIThrows, AnswerNoJson, ArrayObjectOnly, ArrayBadJson, ArrayTwice, ArrayEmpty,
   ArrayThree, ArrayTwo, ArrayOwnIds, ArrayNull}

TopicFeelings == [category |-> "feelings", question |-> "what moved you lately?"]
TopicOther == [category |-> "pets", question |-> "cat or dog?"]
Tips == <<"listen first", "ask open questions">>

ObjectBadJson == AISays(<<Prose, LBrace, Prose, RBrace>>)
ObjectTwice ==
  AISays(<<LBrace, Members([tips |-> Tips]), RBrace, Prose,
           LBrace, Members([tips |-> Tips]), RBrace>>)
ObjectEmpty == AISays(<<LBrace, RBrace>>)
ObjectFull ==
  AISays(<<Prose, LBrace,
           Members([stage |-> "deepening", topics |-> <<TopicFeelings, TopicOther>>,
                    tips |-> Tips]),
           RBrace>>)
ObjectTipsOnly == AISays(<<LBrace, Members([stage |-> "first contact", tips |-> Tips]), RBrace>>)
ObjectNullTopic ==
  AISays(<<LBrace, Members([topics |-> <<TopicFeelings, Null>>, tips |-> Tips]), RBrace>>)

ObjectAnswers ==
  {AIThrows, AnswerNoJson, ObjectBadJson, ObjectTwice, ObjectEmpty, ObjectFull,
   ObjectTipsOnly, ObjectNullTopic}

TextQuestion == <<"u4f60", "u597d", "?">>          \* 你好?
TextQuestionWide == <<"u65c5", "u884c", "uff1f">>  \* 旅行？
TextLong == [i \in 1..22 |-> IF i = 21 THEN "u7d2f" ELSE "a"]

Contents == {<<>>, TextHello, TextTravel}
Types == {Missing, "poem"} \cup GenerateTypes
CommentContents == {<<>>, TextHello, TextLong}
LastMessages == {TextHello, TextTravel, TextQuestion, TextQuestionWide}
\* Conversation lengths on both sides of the thresholds 5 and 10.
Lengths == {0, 4, 5, 9, MaxMessages}

\* The conversations sent: n messages, the last one with the content drawn.
Conversations ==
  {NotAnArray} \cup
  {Conversation([i \in 1..n |-> [content |-> IF i = n THEN t ELSE TextHello]]) :
     n \in Lengths, t \in LastMessages}

InitAssistant ==
  /\ users = RegisteredUsers
  /\ profiles = {}
  /\ moments = <<>>
  /\ req = [c \in Conns |-> Idle]
  /\ last = NoExchange
  /\ nextId = 3

NextAssistant ==
  \/ \E content \in Contents, type \in Types, ai \in ArrayAnswers : Generate(content, type, ai)
  \/ \E conversation \in Conversations, ai \in ObjectAnswers : Suggest(conversation, ai)
  \/ \E momentContent \in CommentContents, ai \in ArrayAnswers : Comment(momentContent, ai)

SpecAssistant == InitAssistant /\ [][NextAssistant]_vars

\* ---------------------------------------- claims on the assistant service

ArrayUnusable(ai) ==
  \/ ai.thrown
  \/ matchArray(ai.text) = <<>>
  \/ ~parseArray(matchArray(ai.text)).ok

ObjectUnusable(ai) ==
  \/ ai.thrown
  \/ matchObject(ai.text) = <<>>
  \/ ~parseObject(matchObject(ai.text)).ok

StageTypes == {"topic", "deepening", "activity"}

\* C1: a valid /generate, /suggest or /comment request whose AI call throws,
\* or whose AI text holds no fragment the regular expression matches, or whose
\* matched fragment fails JSON.parse, is never answered with an error status:
\* it is answered success:true with the default content, the three default
\* templates of the type for /generate, the three default comments for
\* /comment, and for /suggest one stage suggestion, first in the list and
\* followed only by the response and interactive suggestions.
C1_AIFailureAnsweredWithDefaults ==
  /\ (last.op = "generate" /\ last.in.content # <<>> /\ last.in.type \in GenerateTypes
        /\ ArrayUnusable(last.in.ai))
     => /\ last.res.status = 200 /\ last.res.success
        /\ Len(last.res.data.suggestions) = 3
        /\ last.res.data.suggestions = DefaultSuggestions(last.in.type, last.in.content)
  /\ (last.op = "comment" /\ last.in.momentContent # <<>> /\ ArrayUnusable(last.in.ai))
     => /\ last.res.status = 200 /\ last.res.success
        /\ Len(last.res.data.comments) = 3
        /\ last.res.data.comments = DefaultComments(last.in.momentContent)
  /\ (last.op = "suggest" /\ last.in.conversation.isArray /\ ObjectUnusable(last.in.ai))
     => /\ last.res.status = 200 /\ last.res.success
        /\ LET s == last.res.data.suggestions IN
           /\ Len(s) >= 2
           /\ s[1].type \in StageTypes
           /\ \A i \in 2..Len(s) : s[i].type \in {"response", "interactive"}

\* C1 witness: the AI text of a /suggest request held a {...} fragment that
\* failed JSON.parse, and the request was answered with the default stage
\* suggestion.
C1_Witness ==
  /\ last.op = "suggest"
  /\ ~last.in.ai.thrown
  /\ matchObject(last.in.ai.text) # <<>>
  /\ ~parseObject(matchObject(last.in.ai.text)).ok
  /\ last.res.status = 200
  /\ last.res.data.suggestions[1].type = "deepening"

\* C11: POST /api/assistant/generate answers 400 without calling the AI model
\* when content or type is missing, and answers 400 without calling the AI
\* model when type is not one of moment, icebreaker, bio.
C11_GenerateRejectsWithoutAI ==
  last.op = "generate" =>
    /\ (last.in.content = <<>> \/ last.in.type = Missing)
         => (last.res.status = 400 /\ ~last.res.success /\ last.loc.aiCalls = 0)
    /\ last.in.type \notin {"moment", "icebreaker", "bio"}
         => (last.res.status = 400 /\ ~last.res.success /\ last.loc.aiCalls = 0)

\* C11 witness: a /generate with a content and the type "poem" was answered
\* 400 and made no AI call.
C11_Witness ==
  /\ last.op = "generate"
  /\ last.in.content # <<>>
  /\ last.in.type = "poem"
  /\ last.res.status = 400
  /\ last.loc.aiCalls = 0

\* The styles the prompt of each type announces, and the field that carries them.
StyleField(type) == IF type = "icebreaker" THEN "approach" ELSE "style"

AnnouncedStyles(type) ==
  CASE type = "moment" -> {"literary", "funny", "deep"}                          \* 文艺 搞笑 深沉
    [] type = "icebreaker" -> {"shared interest", "sincere question", "light humour"}
    [] type = "bio" -> {"minimal", "poetic", "real"}                             \* 简约 诗意 真实

\* C12: a successful POST /api/assistant/generate returns exactly three
\* suggestions, one per style announced for the type, whether they come from
\* the AI response or from the default templates.
C12_ExactlyThreeSuggestions ==
  (last.op = "generate" /\ last.res.status = 200) =>
    LET s == last.res.data.suggestions
        f == StyleField(last.in.type)
    IN /\ Len(s) = 3
       /\ \A i \in 1..Len(s) : f \in DOMAIN s[i]
       /\ {s[i][f] : i \in 1..Len(s)} = AnnouncedStyles(last.in.type)

\* The items of a successful /generate or /comment response.
ResponseItems ==
  IF last.op = "generate" /\ last.res.status = 200 THEN last.res.data.suggestions
  ELSE IF last.op = "comment" /\ last.res.status = 200 THEN last.res.data.comments
  ELSE <<>>

\* C13: every suggestion returned by POST /generate and every comment returned
\* by POST /comment carries the id the server generated for it, so within one
\* response all ids are pairwise distinct, including when the items come from
\* the parsed AI array.
C13_ResponseIdsDistinct ==
  LET s == ResponseItems IN
  /\ \A i \in 1..Len(s) : s[i].id = nextId + i - 1
  /\ \A i, j \in 1..Len(s) : i # j => s[i].id # s[j].id

\* A stage suggestion is one the catch branch builds: the 'topic' suggestion
\* with an example, the 'deepening' one, or the 'activity' one.  (A topic the
\* AI gave carries a question and no example.)
IsStageSuggestion(x) ==
  \/ x.type = "topic" /\ "example" \in DOMAIN x
  \/ x.type = "deepening"
  \/ x.type = "activity"

\* C14: in POST /api/assistant/suggest, when the AI call fails or its answer is
\* unusable, exactly one stage suggestion is added, and its type is decided by
\* the number n of messages: n < 5 gives 'topic', 5 <= n < 10 gives
\* 'deepening', n >= 10 gives 'activity'.
C14_StageSuggestionByLength ==
  (last.op = "suggest" /\ last.in.conversation.isArray) =>
    LET s == last.res.data.suggestions
        n == Len(last.in.conversation.items)
        stage == {i \in 1..Len(s) : IsStageSuggestion(s[i])}
    IN /\ last.res.status = 200
       /\ ObjectUnusable(last.in.ai) => last.loc.source = "default"
       /\ last.loc.source = "default" =>
            /\ Cardinality(stage) = 1
            /\ \A i \in stage :
                 s[i].type = (IF n < 5 THEN "topic"
                              ELSE IF n < 10 THEN "deepening" ELSE "activity")

\* C14 witness: the AI call of a /suggest with ten or more messages threw, and
\* the response carries the 'activity' suggestion.
C14_Witness ==
  /\ last.op = "suggest"
  /\ last.in.ai.thrown
  /\ last.res.status = 200
  /\ Len(last.in.conversation.items) >= 10
  /\ last.res.data.suggestions[1].type = "activity"

\* C15: every POST /api/assistant/suggest that responds success carries a
\* non-empty suggestions list whose last element is the 'interactive'
\* suggestion, and the list holds the 'response' suggestion with priority
\* 'urgent' if and only if the content of the last conversation message
\* contains '?' or the full-width question mark; a body whose conversation is
\* missing or not an array is answered 400.
C15_SuggestListShape ==
  last.op = "suggest" =>
    /\ ~last.in.conversation.isArray => last.res.status = 400
    /\ last.res.status = 200 =>
         LET s == last.res.data.suggestions
             items == last.in.conversation.items
             lastMessage == IF Len(items) = 0 THEN <<>> ELSE items[Len(items)].content
             asked == \E i \in 1..Len(lastMessage) : lastMessage[i] \in {"?", "uff1f"}
         IN /\ Len(s) >= 1
            /\ s[Len(s)].type = "interactive"
            /\ s[Len(s)].priority = "low"
            /\ (\E i \in 1..Len(s) : s[i].type = "response" /\ s[i].priority = "urgent") <=> asked
            /\ \A i \in 1..Len(s) : s[i].type = "response" => s[i].priority = "urgent"

\* C15 witness: the last message of a /suggest ended with a full-width question
\* mark, and the response holds the 'response' suggestion before the
\* 'interactive' one.
C15_Witness ==
  /\ last.op = "suggest"
  /\ last.res.status = 200
  /\ last.in.conversation.items # <<>>
  /\ last.in.conversation.items[Len(last.in.conversation.items)].content = <<"u65c5", "u884c", "uff1f">>
  /\ LET s == last.res.data.suggestions IN
       /\ Len(s) >= 2
       /\ s[Len(s) - 1].type = "response"
       /\ s[Len(s)].type = "interactive"

\* ------------------------------------- claims on the keyword functions

\* The categories of dict of which some keyword occurs, as written in the
\* dictionary, in the content of some moment.
MatchedCategories(ms, dict) ==
  {dict[k][1] : k \in {k \in DOMAIN dict :
     \E m \in DOMAIN ms : \E w \in DOMAIN dict[k][2] : includes(ms[m].content, dict[k][2][w])}}

\* result holds at most max distinct entries: first the supplied ones, then
\* every matched category (as far as max allows), and nothing else.
SuppliedThenMatched(result, supplied, matched, max) ==
  LET elems == {result[i] : i \in DOMAIN result}
      given == {supplied[i] : i \in DOMAIN supplied}
  IN /\ Len(result) <= max
     /\ \A i, j \in DOMAIN result : i # j => result[i] # result[j]
     /\ elems \subseteq (given \cup matched)
     /\ \A i \in DOMAIN result :
          (i <= Cardinality(given) /\ Cardinality(given) <= max) => result[i] \in given
     /\ Len(result) < max => (given \cup matched) \subseteq elems

\* C16: extractInterests returns at most 8 distinct interests, first the
\* supplied additional interests and then every dictionary category of which
\* some keyword occurs as a substring in the content of some moment (the
\* keyword 'AI' of the technology category included); analyzeValues does the
\* same with at most 6 values.  Nothing is returned that is neither supplied
\* nor matched.
C16_KeywordFunctionsMatchSubstrings ==
  last.op = "analyzeData" =>
    /\ "extractInterests" \in last.loc.calls =>
         SuppliedThenMatched(last.loc.profileData.interests, last.in.userData.interests,
                             MatchedCategories(last.in.moments, interestKeywords), 8)
    /\ "analyzeValues" \in last.loc.calls =>
         SuppliedThenMatched(last.loc.profileData.values, last.in.userData.values,
                             MatchedCategories(last.in.moments, valueKeywords), 6)

====
